---- MODULE Spec2Model ----
(***************************************************************************)
(* FinSight signal production and learning loop: the composite-confidence  *)
(* decision agent, the causal learner, the outcome tracker, the quality    *)
(* store and the detection cycle that drives them.                         *)
(*                                                                         *)
(* Number representation.  The program computes with floats; the model     *)
(* uses exact fixed-point integers:                                        *)
(*   - a confidence component or rate in [0,1] is held in units of 1/10000 *)
(*     ("bp"), a PatternQuality rate in percent,                           *)
(*   - uncertainty is held in hundredths (all its increments are multiples *)
(*     of 0.05),                                                           *)
(*   - a z-score is held in hundredths (the detector rounds to 2 places),  *)
(*   - composite is held as composite * 2*10^8 so that the product         *)
(*     raw * (1 - uncertainty/2) needs no division,                        *)
(*   - a forward return is held in units of 1/10000, rounded down.         *)
(***************************************************************************)
EXTENDS Integers, Sequences, FiniteSets, TLC

\* Optional[T]: None is the empty tuple, a value x is <<x>>
None == <<>>
Some(x) == <<x>>
\* an absent rejection_reason / escalation_reason
NoReason == "None"

\* ------------------------------------------------------------------ bounds
MaxRecords == 5
MaxDecisions == 2

\* ------------------------------------------------------- small value sets
Patterns == {"volume_spike", "price_momentum"}
Regimes == {"ranging", "breakout", "unknown"}
UNKNOWN == "unknown"
DecisionStates == {"IGNORE", "MONITOR", "REVIEW", "EXECUTE"}

Max2(a, b) == IF a >= b THEN a ELSE b
Min2(a, b) == IF a <= b THEN a ELSE b

RECURSIVE SumSeq(_)
SumSeq(s) == IF s = <<>> THEN 0 ELSE Head(s) + SumSeq(Tail(s))

RECURSIVE ISqrtBetween(_, _, _)
ISqrtBetween(x, lo, hi) ==
    IF lo >= hi THEN lo
    ELSE LET mid == (lo + hi + 1) \div 2
         IN IF mid * mid <= x THEN ISqrtBetween(x, mid, hi)
            ELSE ISqrtBetween(x, lo, mid - 1)

\* floor(sqrt(x)) for 0 <= x <= 11000^2
ISqrt(x) == ISqrtBetween(x, 0, 11000)

\* =========================================================================
\* Causal learner (learning/causal_learner.py)
\* =========================================================================

\* exp(-i / (n * 0.5)) * 10000 for i = 0..n-1, n = 1..8
DecayWeights ==
    << <<10000>>,
       <<10000, 3679>>,
       <<10000, 5134, 2636>>,
       <<10000, 6065, 3679, 2231>>,
       <<10000, 6703, 4493, 3012, 2019>>,
       <<10000, 7165, 5134, 3679, 2636, 1889>>,
       <<10000, 7515, 5647, 4244, 3189, 2397, 1801>>,
       <<10000, 7788, 6065, 4724, 3679, 2865, 2231, 1738>> >>

\* _weighted_mean over a list of booleans (1.0 / 0.0), newest weighted most;
\* result in bp
WeightedMean(values) ==
    IF values = <<>> THEN 5000
    ELSE LET n == Len(values)
             w(j) == DecayWeights[n][n - j + 1]
             num == SumSeq([j \in 1..n |-> IF values[j] THEN w(j) ELSE 0])
             den == SumSeq([j \in 1..n |-> w(j)])
         IN (num * 10000) \div den

RegimeKey(pattern, ctx) == <<pattern, ctx.regime>>
ContextKey(pattern, ctx) == <<pattern, ctx.regime, ctx.horizon>>
TemporalKey(pattern, ctx) == <<pattern, ctx.time_of_day, ctx.day_of_week>>

Put(dict, key, v) ==
    IF key \in DOMAIN dict THEN [dict EXCEPT ![key] = Append(@, v)]
    ELSE dict @@ (key :> <<v>>)

\* the factors list built by get_context_confidence
ContextFactors(cs, rp, pattern, ctx) ==
    LET ck == ContextKey(pattern, ctx)
        rk == RegimeKey(pattern, ctx)
        f1 == IF ck \in DOMAIN cs /\ Len(cs[ck]) >= 5
              THEN <<WeightedMean(cs[ck])>> ELSE <<>>
        f2 == IF rk \in DOMAIN rp /\ Len(rp[rk]) >= 3
              THEN <<WeightedMean(rp[rk])>> ELSE <<>>
    IN f1 \o f2

\* get_context_confidence: the multiplier, in bp
GetContextConfidence(cs, rp, pattern, ctx) ==
    LET factors == ContextFactors(cs, rp, pattern, ctx)
    IN IF factors = <<>> THEN 10000
       ELSE IF Len(factors) = 1 THEN factors[1] + 1000
       ELSE ISqrt((factors[1] + 1000) * (factors[2] + 1000))

\* =========================================================================
\* Composite confidence (agents/enhanced_agent.py)
\* =========================================================================

Clamp01(x) == Min2(10000, Max2(0, x))

DataQuality(data_points) ==
    IF data_points >= 50 THEN 10000
    ELSE IF data_points >= 30 THEN 8000
    ELSE IF data_points >= 20 THEN 6000
    ELSE 4000

Uncertainty(ctx, history, conflicting_signals) ==
    LET u1 == IF ctx.regime = UNKNOWN THEN 20 ELSE 0
        u2 == IF history = None \/ history[1].sample_size < 10 THEN 15 ELSE 0
        u3 == IF conflicting_signals > 0
              THEN 10 * Min2(conflicting_signals, 3) ELSE 0
        u4 == IF ctx.volatility_percentile > 80 THEN 10 ELSE 0
    IN Min2(100, u1 + u2 + u3 + u4)

Behavioral(history) ==
    IF history # None /\ history[1].sample_size >= 5
    THEN 60 * history[1].accuracy + 20 * history[1].trade_rate
         + 20 * history[1].agent_accuracy
    ELSE 5000

\* raw_score * 10^6
RawScore(c) ==
    25 * c.statistical + 30 * c.behavioral + 25 * c.regime + 20 * c.data_quality

\* a composite that grows with the uncertainty
PostInitRewardsUncertainty(c) ==
    [c EXCEPT !.composite = RawScore(c) * (200 + c.uncertainty)]

\* CompositeConfidence.__post_init__: composite * 2*10^8
PostInit(c) ==
    [c EXCEPT !.composite = RawScore(c) * (200 - c.uncertainty)]

\* ConfidenceCalculator.calculate
Calculate(cs, rp, z_score, pattern, ctx, history, data_points, conflicting_signals) ==
    PostInit([statistical |-> Clamp01((z_score - 100) * 25),
              behavioral |-> Behavioral(history),
              regime |-> Clamp01(GetContextConfidence(cs, rp, pattern, ctx)),
              data_quality |-> DataQuality(data_points),
              uncertainty |-> Uncertainty(ctx, history, conflicting_signals),
              composite |-> 0])

\* composite >= pct/100
CompositeAtLeast(c, pct) == c.composite >= pct * 2000000

\* =========================================================================
\* Decision agent (agents/enhanced_agent.py)
\* =========================================================================

\* anomaly.get("z_score", 2.0)
ZOf(anomaly) == IF anomaly.z_score = None THEN 200 ELSE anomaly.z_score[1]

\* decide(): context defaults to RegimeDetector._default_context()
DefaultContext ==
    [regime |-> UNKNOWN, horizon |-> "intraday", volatility_percentile |-> 50,
     time_of_day |-> "mid", day_of_week |-> 0]

ContextOf(context) == IF context = None THEN DefaultContext ELSE context[1]

EnhancedDecision(state, confidence, rejected, rejection_reason, escalated, escalation_reason, requested_more_data) ==
    [state |-> state, confidence |-> confidence, rejected |-> rejected,
     rejection_reason |-> rejection_reason, escalated |-> escalated,
     escalation_reason |-> escalation_reason,
     requested_more_data |-> requested_more_data]

Rejected(confidence, why, more) ==
    EnhancedDecision("IGNORE", confidence, TRUE, why, FALSE, NoReason, more)

\* an escalation that keeps the signal on the monitor list and counts as a
\* rejection
EscalatedAsRejectedMonitor(confidence, why) ==
    EnhancedDecision("MONITOR", confidence, TRUE, NoReason, TRUE, why, FALSE)

Escalated(confidence, why) ==
    EnhancedDecision("REVIEW", confidence, FALSE, NoReason, TRUE, why, FALSE)

Plain(state, confidence) ==
    EnhancedDecision(state, confidence, FALSE, NoReason, FALSE, NoReason, FALSE)

\* the standard decision states (EXECUTE / REVIEW / MONITOR / IGNORE)
StandardDecisionAlwaysExecute(confidence, z) ==
    IF CompositeAtLeast(confidence, 55) THEN Plain("EXECUTE", confidence)
    ELSE IF CompositeAtLeast(confidence, 35) /\ z >= 250
    THEN Plain("MONITOR", confidence)
    ELSE Plain("IGNORE", confidence)

StandardDecision(confidence, z) ==
    IF CompositeAtLeast(confidence, 75) /\ z >= 400
    THEN Plain("EXECUTE", confidence)
    ELSE IF CompositeAtLeast(confidence, 55) THEN Plain("REVIEW", confidence)
    ELSE IF CompositeAtLeast(confidence, 35) /\ z >= 250
    THEN Plain("MONITOR", confidence)
    ELSE Plain("IGNORE", confidence)

\* the escalation checks, then the standard states
EscalationChecksFirstOccurrenceFirst(rp, pattern, confidence, ctx, z) ==
    IF RegimeKey(pattern, ctx) \notin DOMAIN rp
    THEN Escalated(confidence, "first_occurrence")
    ELSE IF confidence.uncertainty >= 40
    THEN Escalated(confidence, "high_uncertainty")
    ELSE StandardDecision(confidence, z)

EscalationChecks(rp, pattern, confidence, ctx, z) ==
    IF confidence.uncertainty >= 40
    THEN Escalated(confidence, "high_uncertainty")
    ELSE IF RegimeKey(pattern, ctx) \notin DOMAIN rp
    THEN Escalated(confidence, "first_occurrence")
    ELSE StandardDecision(confidence, z)

\* _make_decision with the poor-history rejection keeping the signal for review
MakeDecisionSoftReject(cs, rp, anomaly, confidence, ctx, history) ==
    LET z == ZOf(anomaly)
        pattern == anomaly.type
    IN IF history # None /\ history[1].sample_size >= 15 /\ history[1].accuracy < 25
       THEN EnhancedDecision("REVIEW", confidence, TRUE, NoReason, FALSE, NoReason, FALSE)
       ELSE IF ctx.regime # UNKNOWN
               /\ GetContextConfidence(cs, rp, pattern, ctx) < 4000 /\ z < 350
       THEN Rejected(confidence, "unfavorable_regime", FALSE)
       ELSE IF confidence.data_quality < 5000
       THEN Rejected(confidence, "insufficient_data", TRUE)
       ELSE EscalationChecks(rp, pattern, confidence, ctx, z)

\* _make_decision
MakeDecision(cs, rp, anomaly, confidence, ctx, history) ==
    LET z == ZOf(anomaly)
        pattern == anomaly.type
    IN IF history # None /\ history[1].sample_size >= 15 /\ history[1].accuracy < 25
       THEN Rejected(confidence, "poor_history", FALSE)
       ELSE IF ctx.regime # UNKNOWN
               /\ GetContextConfidence(cs, rp, pattern, ctx) < 4000 /\ z < 350
       THEN Rejected(confidence, "unfavorable_regime", FALSE)
       ELSE IF confidence.data_quality < 5000
       THEN Rejected(confidence, "insufficient_data", TRUE)
       ELSE EscalationChecks(rp, pattern, confidence, ctx, z)

\* decide(): the decision returned for the inputs `c` under learner state cs, rp
DecideResult(cs, rp, c) ==
    LET ctx == ContextOf(c.context)
        confidence == Calculate(cs, rp, ZOf(c.anomaly), c.anomaly.type, ctx,
                                c.history, c.data_points, c.conflicting_signals)
    IN MakeDecision(cs, rp, c.anomaly, confidence, ctx, c.history)

\* statistics that leave a rejected decision out of by_state
StatsAfterSkipsRejected(st, d) ==
    [total_decisions |-> st.total_decisions + 1,
     rejected |-> st.rejected + (IF d.rejected THEN 1 ELSE 0),
     escalated |-> st.escalated + (IF d.escalated THEN 1 ELSE 0),
     by_state |-> IF d.rejected THEN st.by_state
                  ELSE [st.by_state EXCEPT ![d.state] = @ + 1]]

\* self.stats after one more decision
StatsAfter(st, d) ==
    [total_decisions |-> st.total_decisions + 1,
     rejected |-> st.rejected + (IF d.rejected THEN 1 ELSE 0),
     escalated |-> st.escalated + (IF d.escalated THEN 1 ELSE 0),
     by_state |-> [st.by_state EXCEPT ![d.state] = @ + 1]]

InitStats ==
    [total_decisions |-> 0, rejected |-> 0, escalated |-> 0,
     by_state |-> [s \in DecisionStates |-> 0]]

\* =========================================================================
\* State
\* =========================================================================
VARIABLES
    context_success,    \* CausalLearner.context_success
    regime_patterns,    \* CausalLearner.regime_patterns
    temporal_patterns,  \* CausalLearner.temporal_patterns
    call,               \* the arguments of EnhancedAgent.decide
    decision,           \* the decision decide() returned last (None before)
    stats,              \* EnhancedAgent.stats
    anomalies,          \* table anomalies: id -> row
    user_actions,       \* table user_actions, in insertion order
    anomaly_outcomes,   \* table anomaly_outcomes, in insertion order
    pattern_quality,    \* table pattern_quality: (user, pattern, symbol) -> row
    tracking_tasks,     \* OutcomeTracker.tracking_tasks: anomaly id -> coroutine
    detection_thresholds, \* table detection_thresholds: (user, pattern, symbol) -> row
    detected,           \* what AnomalyDetector.detect returned last (None before)
    runner,             \* the process running run_once: where it is, its locals
    clock,              \* whole maximum intervals the process has been down for
    users,              \* table users: id -> row (API database)
    user_watchlist,     \* table user_watchlist: user id -> set of symbols
    add_requests        \* POST /watchlist requests: id -> where the handler is

learnerVars == <<context_success, regime_patterns, temporal_patterns>>
agentVars == <<call, decision, stats>>
dbVars == <<anomalies, user_actions, anomaly_outcomes, pattern_quality>>
cycleVars == <<detection_thresholds, detected, runner, clock>>
apiVars == <<users, user_watchlist, add_requests>>
vars == <<learnerVars, agentVars, dbVars, tracking_tasks, cycleVars, apiVars>>

\* CausalLearner.__init__
InitLearner ==
    /\ context_success = <<>>
    /\ regime_patterns = <<>>
    /\ temporal_patterns = <<>>

\* a learner that files the regime outcome under the unknown regime
RecordOutcomeUnderUnknownRegime(pattern, ctx, success) ==
    /\ context_success' = Put(context_success, ContextKey(pattern, ctx), success)
    /\ regime_patterns' = Put(regime_patterns, <<pattern, UNKNOWN>>, success)
    /\ temporal_patterns' = Put(temporal_patterns, TemporalKey(pattern, ctx), success)

\* CausalLearner.record_outcome
RecordOutcome(pattern, ctx, success) ==
    /\ context_success' = Put(context_success, ContextKey(pattern, ctx), success)
    /\ regime_patterns' = Put(regime_patterns, RegimeKey(pattern, ctx), success)
    /\ temporal_patterns' = Put(temporal_patterns, TemporalKey(pattern, ctx), success)

RECURSIVE TotalLen(_, _)
TotalLen(dict, keys) ==
    IF keys = {} THEN 0
    ELSE LET k == CHOOSE x \in keys : TRUE
         IN Len(dict[k]) + TotalLen(dict, keys \ {k})

\* number of outcomes the learner has ingested
RecordCount == TotalLen(regime_patterns, DOMAIN regime_patterns)

\* =========================================================================
\* The agent as a component: decide() on fixed arguments while the learner
\* ingests outcomes
\* =========================================================================

Context(regime, vol) ==
    [regime |-> regime, horizon |-> "intraday", volatility_percentile |-> vol,
     time_of_day |-> "mid", day_of_week |-> 0]

PatternQuality(sample_size, accuracy, trade_rate, agent_accuracy) ==
    [sample_size |-> sample_size, accuracy |-> accuracy,
     trade_rate |-> trade_rate, agent_accuracy |-> agent_accuracy]

CallZScores == {None, Some(250), Some(349), Some(350), Some(399), Some(400), Some(600)}

CallHistories ==
    {None, Some(PatternQuality(4, 100, 100, 100)),
     Some(PatternQuality(14, 10, 0, 0)), Some(PatternQuality(15, 24, 50, 50)),
     Some(PatternQuality(15, 25, 50, 50)), Some(PatternQuality(30, 72, 55, 70)),
     Some(PatternQuality(30, 100, 100, 100))}

CallContexts ==
    {None, Some(Context("ranging", 40)), Some(Context("ranging", 90)),
     Some(Context("breakout", 40)), Some(Context(UNKNOWN, 90))}

CallDataPoints == {10, 20, 60}

CallConflicts == {0, 3}

Calls ==
    [anomaly : [type : {"volume_spike"}, z_score : CallZScores],
     history : CallHistories, context : CallContexts,
     data_points : CallDataPoints, conflicting_signals : CallConflicts]

\* contexts whose outcomes the learner ingests
RecordContexts == {Context("ranging", 40)}

\* an empty database and a tracker with no task
InitStore ==
    /\ anomalies = <<>>
    /\ user_actions = <<>>
    /\ anomaly_outcomes = <<>>
    /\ pattern_quality = <<>>
    /\ tracking_tasks = <<>>

\* no process has run yet
NotRunning ==
    [pc |-> "off", run |-> 0, i |-> 1, todo |-> <<>>, context |-> None,
     data_points |-> 0, lost |-> {}]

\* the API database before any request
InitApi ==
    /\ users = <<>>
    /\ user_watchlist = <<>>
    /\ add_requests = <<>>

InitCycle ==
    /\ detection_thresholds = <<>>
    /\ detected = None
    /\ runner = NotRunning
    /\ clock = 0

InitAgent ==
    /\ InitLearner
    /\ call \in Calls
    /\ decision = None
    /\ stats = InitStats
    /\ InitStore
    /\ InitCycle
    /\ InitApi

\* EnhancedAgent.decide
Decide ==
    /\ stats.total_decisions < MaxDecisions
    /\ LET d == DecideResult(context_success, regime_patterns, call)
       IN /\ decision' = Some(d)
          /\ stats' = StatsAfter(stats, d)
    /\ UNCHANGED <<apiVars, learnerVars, call, dbVars, tracking_tasks, cycleVars>>

\* an outcome reaches CausalLearner.record_outcome
Learn ==
    /\ \E ctx \in RecordContexts, success \in BOOLEAN :
          /\ RecordCount < MaxRecords
          /\ RecordOutcome("volume_spike", ctx, success)
    /\ UNCHANGED <<apiVars, agentVars, dbVars, tracking_tasks, cycleVars>>

NextAgent == Decide \/ Learn

SpecAgent == InitAgent /\ [][NextAgent]_vars

\* =========================================================================
\* Claims about the decision agent (checked under SpecAgent)
\* =========================================================================

\* C2 -- execute gate: a decision returned by decide() with state EXECUTE has
\* composite >= 0.75, comes from an anomaly with z_score >= 4.0, and is not
\* rejected.
C2_ExecuteGate ==
    decision # None =>
        (decision[1].state = "EXECUTE" =>
            /\ decision[1].confidence.composite >= 150000000
            /\ ZOf(call.anomaly) >= 400
            /\ decision[1].rejected = FALSE)

\* C2 witness: decide() has returned EXECUTE
C2_Witness == decision # None /\ decision[1].state = "EXECUTE"

\* C3 -- rejection discipline: a rejected decision has state IGNORE and
\* carries a rejection_reason.
C3_RejectionDiscipline ==
    decision # None =>
        (decision[1].rejected =>
            /\ decision[1].state = "IGNORE"
            /\ decision[1].rejection_reason # NoReason)

\* C3 witness: decide() has returned a rejection for poor history
C3_Witness ==
    /\ decision # None
    /\ decision[1].rejected
    /\ decision[1].rejection_reason = "poor_history"

\* The nine authority rules in the order the specification lists them, each
\* with its condition and its outcome
\* <<state, rejected, rejection_reason, escalated, escalation_reason,
\*   requested_more_data>>.
AuthorityRules(cs, rp, c) ==
    LET ctx == ContextOf(c.context)
        z == ZOf(c.anomaly)
        h == c.history
        conf == Calculate(cs, rp, z, c.anomaly.type, ctx, h, c.data_points,
                          c.conflicting_signals)
    IN << [cond |-> h # None /\ h[1].sample_size >= 15 /\ h[1].accuracy < 25,
           out |-> <<"IGNORE", TRUE, "poor_history", FALSE, NoReason, FALSE>>],
          [cond |-> /\ ctx.regime # UNKNOWN
                    /\ GetContextConfidence(cs, rp, c.anomaly.type, ctx) < 4000
                    /\ z < 350,
           out |-> <<"IGNORE", TRUE, "unfavorable_regime", FALSE, NoReason, FALSE>>],
          [cond |-> conf.data_quality < 5000,
           out |-> <<"IGNORE", TRUE, "insufficient_data", FALSE, NoReason, TRUE>>],
          [cond |-> conf.uncertainty >= 40,
           out |-> <<"REVIEW", FALSE, NoReason, TRUE, "high_uncertainty", FALSE>>],
          [cond |-> <<c.anomaly.type, ctx.regime>> \notin DOMAIN rp,
           out |-> <<"REVIEW", FALSE, NoReason, TRUE, "first_occurrence", FALSE>>],
          [cond |-> conf.composite >= 150000000 /\ z >= 400,
           out |-> <<"EXECUTE", FALSE, NoReason, FALSE, NoReason, FALSE>>],
          [cond |-> conf.composite >= 110000000,
           out |-> <<"REVIEW", FALSE, NoReason, FALSE, NoReason, FALSE>>],
          [cond |-> conf.composite >= 70000000 /\ z >= 250,
           out |-> <<"MONITOR", FALSE, NoReason, FALSE, NoReason, FALSE>>],
          [cond |-> TRUE,
           out |-> <<"IGNORE", FALSE, NoReason, FALSE, NoReason, FALSE>>] >>

FirstMatch(rules) ==
    rules[CHOOSE i \in 1..Len(rules) :
              rules[i].cond /\ \A j \in 1..(i - 1) : ~rules[j].cond]

Authority(d) ==
    <<d.state, d.rejected, d.rejection_reason, d.escalated,
      d.escalation_reason, d.requested_more_data>>

\* C4 -- first matching rule wins: every decide() call returns the outcome of
\* the first of the nine authority rules, in the listed order, whose
\* condition holds for the call's arguments and the learner state at the call.
C4_FirstMatchWins ==
    [][stats'.total_decisions = stats.total_decisions + 1 =>
         Authority(decision'[1]) =
             FirstMatch(AuthorityRules(context_success, regime_patterns, call)).out]_vars

\* C4 witness: rules 4 and 5 both match (uncertainty >= 0.4 and no learner
\* record) and the decision is the earlier one's
C4_Witness ==
    /\ decision # None
    /\ decision[1].escalation_reason = "high_uncertainty"
    /\ regime_patterns = <<>>

\* =========================================================================
\* Outcome tracker (tracking/outcome_tracker.py) and its tables
\* (database/db.py)
\* =========================================================================

USER_ID == "divyanshu"

OUTCOME_INTERVALS ==
    << <<"15m", 900>>, <<"1h", 3600>>, <<"4h", 14400>>, <<"1d", 86400>> >>

\* 0.005, in units of 1/10000
PROFITABLE_THRESHOLD == 50

\* asyncpg.create_pool(max_size=10)
POOL_MAX_SIZE == 10

IntervalNames == {OUTCOME_INTERVALS[i][1] : i \in 1..Len(OUTCOME_INTERVALS)}

UserActions == {"ignored", "reviewed", "traded"}

\* returns = {}
NoReturns == [n \in IntervalNames |-> None]

\* (current_price - entry_price) / entry_price, in units of 1/10000
ForwardReturn(current_price, entry_price) ==
    ((current_price - entry_price) * 10000) \div entry_price

AfterFetchZeroOnFailure(returns, interval_name, current_price, entry_price) ==
    IF current_price # None /\ current_price[1] # 0 /\ entry_price # 0
    THEN [returns EXCEPT
             ![interval_name] = Some(ForwardReturn(current_price[1], entry_price))]
    ELSE [returns EXCEPT ![interval_name] = Some(0)]

\* the loop body after the price fetch: current_price is None when the fetch
\* raised or found no price; a division by a zero entry price is caught
AfterFetch(returns, interval_name, current_price, entry_price) ==
    IF current_price # None /\ current_price[1] # 0 /\ entry_price # 0
    THEN [returns EXCEPT
             ![interval_name] = Some(ForwardReturn(current_price[1], entry_price))]
    ELSE returns

ReturnValues(returns) ==
    {returns[n][1] : n \in {m \in IntervalNames : returns[m] # None}}

SetMax(S) == CHOOSE x \in S : \A y \in S : y <= x

\* best_return = max(returns.values()) if returns else 0
BestReturn(returns) ==
    IF ReturnValues(returns) = {} THEN 0 ELSE SetMax(ReturnValues(returns))

WasProfitableStrict(returns) == BestReturn(returns) > PROFITABLE_THRESHOLD

\* was_profitable = best_return >= config.PROFITABLE_THRESHOLD
WasProfitable(returns) == BestReturn(returns) >= PROFITABLE_THRESHOLD

EvaluateAgentIgnoresUser(agent_decision, user_action, was_profitable) ==
    IF agent_decision = "IGNORE" THEN ~was_profitable ELSE was_profitable

\* OutcomeTracker._evaluate_agent
EvaluateAgent(agent_decision, user_action, was_profitable) ==
    IF agent_decision = "IGNORE" THEN ~was_profitable
    ELSE IF user_action \in {"reviewed", "traded"} THEN was_profitable
    ELSE ~was_profitable

UserActionOfOldest(table, anomaly_id, user_id) ==
    LET hits == {i \in 1..Len(table) :
                    table[i].anomaly_id = anomaly_id /\ table[i].user_id = user_id}
    IN IF hits = {} THEN "ignored"
       ELSE table[CHOOSE i \in hits : \A j \in hits : i <= j].action

\* OutcomeTracker._get_user_action: the newest matching row, else "ignored"
UserActionOf(table, anomaly_id, user_id) ==
    LET hits == {i \in 1..Len(table) :
                    table[i].anomaly_id = anomaly_id /\ table[i].user_id = user_id}
    IN IF hits = {} THEN "ignored" ELSE table[SetMax(hits)].action

\* the row INSERTed into anomaly_outcomes
OutcomeRow(anomaly_id, t) ==
    LET was_profitable == WasProfitable(t.returns)
    IN [anomaly_id |-> anomaly_id, user_id |-> t.user_id,
        agent_decision |-> t.agent_decision,
        agent_confidence |-> t.agent_confidence,
        user_action |-> t.user_action, returns |-> t.returns,
        was_profitable |-> was_profitable,
        agent_correct |-> EvaluateAgent(t.agent_decision, t.user_action,
                                        was_profitable)]

\* FROM anomaly_outcomes ao JOIN anomalies a ON ao.anomaly_id = a.id
\* WHERE ao.user_id = $1 AND a.pattern_type = $2 AND a.symbol = $3
OutcomesOf(outcomes, anoms, user_id, pattern_type, symbol) ==
    LET Match(o) == /\ o.user_id = user_id
                    /\ o.anomaly_id \in DOMAIN anoms
                    /\ anoms[o.anomaly_id].pattern_type = pattern_type
                    /\ anoms[o.anomaly_id].symbol = symbol
    IN SelectSeq(outcomes, Match)

\* AVG(CASE WHEN ... THEN 1.0 ELSE 0.0 END) over sample_size rows of which
\* `hits` satisfy the condition, in percent
Rate(hits, sample_size) == (100 * hits) \div sample_size

\* COALESCE(return_1d, return_4h, return_1h, 0)
CoalescedReturn(o) ==
    IF o.returns["1d"] # None THEN o.returns["1d"][1]
    ELSE IF o.returns["4h"] # None THEN o.returns["4h"][1]
    ELSE IF o.returns["1h"] # None THEN o.returns["1h"][1]
    ELSE 0

\* the aggregate SELECT of _update_pattern_quality
QualityStats(rows) ==
    LET Profitable(o) == o.was_profitable
        Reviewed(o) == o.user_action = "reviewed" \/ o.user_action = "traded"
        Traded(o) == o.user_action = "traded"
        Correct(o) == o.agent_correct
    IN IF rows = <<>>
       THEN [sample_size |-> 0, accuracy |-> 0, review_rate |-> 0,
             trade_rate |-> 0, avg_return |-> 0, agent_accuracy |-> 0]
       ELSE [sample_size |-> Len(rows),
             accuracy |-> Rate(Len(SelectSeq(rows, Profitable)), Len(rows)),
             review_rate |-> Rate(Len(SelectSeq(rows, Reviewed)), Len(rows)),
             trade_rate |-> Rate(Len(SelectSeq(rows, Traded)), Len(rows)),
             avg_return |-> SumSeq([i \in 1..Len(rows) |->
                                       CoalescedReturn(rows[i])]) \div Len(rows),
             agent_accuracy |-> Rate(Len(SelectSeq(rows, Correct)), Len(rows))]

\* a stored pattern_quality row: the six metric columns and updated_at, a
\* logical timestamp counting the writes to the row (NOW() moves forward)
QualityRow(row, updated_at) ==
    [sample_size |-> row.sample_size, accuracy |-> row.accuracy,
     review_rate |-> row.review_rate, trade_rate |-> row.trade_rate,
     avg_return |-> row.avg_return, agent_accuracy |-> row.agent_accuracy,
     updated_at |-> updated_at]

\* every column of a stored row but updated_at
Metrics(row) ==
    [sample_size |-> row.sample_size, accuracy |-> row.accuracy,
     review_rate |-> row.review_rate, trade_rate |-> row.trade_rate,
     avg_return |-> row.avg_return, agent_accuracy |-> row.agent_accuracy]

\* an upsert that adds the new sample count to the stored one
UpsertQualityAccumulates(table, user_id, pattern_type, symbol, row) ==
    LET key == <<user_id, pattern_type, symbol>>
    IN IF key \in DOMAIN table
       THEN [table EXCEPT ![key] =
                QualityRow([row EXCEPT !.sample_size = @ + table[key].sample_size],
                           table[key].updated_at + 1)]
       ELSE table @@ (key :> QualityRow(row, 1))

\* Database.update_pattern_quality: INSERT ... ON CONFLICT DO UPDATE, with
\* updated_at = NOW() on both branches
UpsertQuality(table, user_id, pattern_type, symbol, row) ==
    LET key == <<user_id, pattern_type, symbol>>
    IN IF key \in DOMAIN table
       THEN [table EXCEPT ![key] = QualityRow(row, table[key].updated_at + 1)]
       ELSE table @@ (key :> QualityRow(row, 1))

\* connections of the pool held across a suspension point
ConnectionsHeld ==
    Cardinality({id \in DOMAIN tracking_tasks : tracking_tasks[id].pc = "upsert"})

\* pool.acquire() returns: a connection is free and the pool was not closed
\* by the finally block of an interrupted run_once
CanAcquire == ConnectionsHeld < POOL_MAX_SIZE /\ runner.pc # "interrupted"

\* the coroutine _track_outcome at its first line
NewTask(user_id, symbol, entry_price, agent_decision, agent_confidence) ==
    [user_id |-> user_id, symbol |-> symbol, entry_price |-> entry_price,
     agent_decision |-> agent_decision, agent_confidence |-> agent_confidence,
     pc |-> "sampling", idx |-> 1, returns |-> NoReturns,
     user_action |-> "ignored",
     stats |-> QualityStats(<<>>), pattern_type |-> "", elapsed |-> 0,
     current_price |-> None]

\* tracking_tasks.pop(anomaly_id, None)
Pop(tasks, id) == [k \in DOMAIN tasks \ {id} |-> tasks[k]]

\* OutcomeTracker.start_tracking
StartTracking(id, user_id, symbol, entry_price, agent_decision, agent_confidence) ==
    tracking_tasks' =
        tracking_tasks @@ (id :> NewTask(user_id, symbol, entry_price,
                                         agent_decision, agent_confidence))

\* a row of table anomalies
AnomalyRow(symbol, pattern_type, z_score, price, agent_decision, detected_at) ==
    [symbol |-> symbol, pattern_type |-> pattern_type, z_score |-> z_score,
     price |-> price, agent_decision |-> agent_decision,
     detected_at |-> detected_at]

\* Database.save_anomaly
SaveAnomaly(id, symbol, pattern_type, z_score, price, detected_at, agent_decision) ==
    anomalies' =
        IF id \in DOMAIN anomalies
        THEN [anomalies EXCEPT ![id].agent_decision = agent_decision]
        ELSE anomalies @@ (id :> AnomalyRow(symbol, pattern_type, z_score, price,
                                            agent_decision, detected_at))

\* _track_outcome, one pass of the interval loop: sleep, fetch, record
Sample(id, prices) ==
    /\ id \in DOMAIN tracking_tasks
    /\ LET t == tracking_tasks[id]
       IN /\ t.pc = "sampling"
          /\ \E current_price \in prices :
                tracking_tasks' = [tracking_tasks EXCEPT ![id] =
                    [t EXCEPT
                       !.returns = AfterFetch(t.returns, OUTCOME_INTERVALS[t.idx][1],
                                              current_price, t.entry_price),
                       !.elapsed = t.elapsed + OUTCOME_INTERVALS[t.idx][2],
                       !.current_price = current_price,
                       !.idx = t.idx + 1,
                       !.pc = IF t.idx = Len(OUTCOME_INTERVALS)
                              THEN "get_user_action" ELSE "sampling"]]
    /\ UNCHANGED <<apiVars, learnerVars, agentVars, dbVars, cycleVars>>

\* _track_outcome: user_action = await self._get_user_action(...)
GetUserAction(id) ==
    /\ id \in DOMAIN tracking_tasks
    /\ tracking_tasks[id].pc = "get_user_action"
    /\ CanAcquire
    /\ tracking_tasks' = [tracking_tasks EXCEPT
          ![id].user_action = UserActionOf(user_actions, id, tracking_tasks[id].user_id),
          ![id].pc = "insert"]
    /\ UNCHANGED <<apiVars, learnerVars, agentVars, dbVars, cycleVars>>

\* a tracker that writes the row as soon as the first interval was sampled
InsertOutcomeEarly(id) ==
    /\ id \in DOMAIN tracking_tasks
    /\ tracking_tasks[id].pc = "sampling"
    /\ tracking_tasks[id].idx > 1
    /\ \A i \in 1..Len(anomaly_outcomes) : anomaly_outcomes[i].anomaly_id # id
    /\ anomaly_outcomes' = Append(anomaly_outcomes, OutcomeRow(id, tracking_tasks[id]))
    /\ UNCHANGED <<apiVars, learnerVars, agentVars, anomalies, user_actions, pattern_quality,
                   tracking_tasks, cycleVars>>

\* _track_outcome: INSERT INTO anomaly_outcomes
InsertOutcome(id) ==
    /\ id \in DOMAIN tracking_tasks
    /\ tracking_tasks[id].pc = "insert"
    /\ CanAcquire
    /\ anomaly_outcomes' = Append(anomaly_outcomes, OutcomeRow(id, tracking_tasks[id]))
    /\ tracking_tasks' = [tracking_tasks EXCEPT ![id].pc = "update_quality"]
    /\ UNCHANGED <<apiVars, learnerVars, agentVars, anomalies, user_actions, pattern_quality,
                   cycleVars>>

\* _update_pattern_quality: acquire a connection, read the anomaly and the
\* aggregate; the connection stays held
ReadQuality(id) ==
    /\ id \in DOMAIN tracking_tasks
    /\ tracking_tasks[id].pc = "update_quality"
    /\ CanAcquire
    /\ IF id \notin DOMAIN anomalies
       THEN tracking_tasks' = Pop(tracking_tasks, id)
       ELSE LET a == anomalies[id]
                t == tracking_tasks[id]
                rows == OutcomesOf(anomaly_outcomes, anomalies, t.user_id,
                                   a.pattern_type, a.symbol)
            IN tracking_tasks' = [tracking_tasks EXCEPT
                  ![id].stats = QualityStats(rows),
                  ![id].pattern_type = a.pattern_type,
                  ![id].pc = "upsert"]
    /\ UNCHANGED <<apiVars, learnerVars, agentVars, dbVars, cycleVars>>

\* _update_pattern_quality: await self.db.update_pattern_quality(...) on a
\* second connection, then both are released and the task ends
WriteQuality(id) ==
    /\ id \in DOMAIN tracking_tasks
    /\ LET t == tracking_tasks[id]
       IN /\ t.pc = "upsert"
          /\ t.stats.sample_size > 0 => CanAcquire
          /\ pattern_quality' =
                IF t.stats.sample_size > 0
                THEN UpsertQuality(pattern_quality, t.user_id, t.pattern_type,
                                   anomalies[id].symbol, t.stats)
                ELSE pattern_quality
    /\ tracking_tasks' = Pop(tracking_tasks, id)
    /\ UNCHANGED <<apiVars, learnerVars, agentVars, anomalies, user_actions, anomaly_outcomes,
                   cycleVars>>

\* Database.save_user_action / APIDatabase.record_user_action
SaveUserAction(anomaly_id, user_id, action) ==
    /\ user_actions' = Append(user_actions,
          [anomaly_id |-> anomaly_id, user_id |-> user_id, action |-> action])
    /\ UNCHANGED <<apiVars, learnerVars, agentVars, anomalies, anomaly_outcomes,
                   pattern_quality, tracking_tasks, cycleVars>>

\* the steps of the tracking coroutines
TaskStep(prices) ==
    \E id \in DOMAIN tracking_tasks :
        \/ Sample(id, prices)
        \/ GetUserAction(id)
        \/ InsertOutcome(id)
        \/ ReadQuality(id)
        \/ WriteQuality(id)

\* -------------------------------------------------------------------------
\* One tracked anomaly, from start_tracking to the end of its coroutine
\* -------------------------------------------------------------------------

MaxActions == 2

EntryPrice == 1000

\* what the price fetch can return: nothing, a loss, just under the profit
\* threshold, exactly on it
OutcomePrices == {None, Some(990), Some(1004), Some(1005)}

TrackedDecisions == {"IGNORE", "MONITOR", "REVIEW", "EXECUTE"}

InitOutcome ==
    /\ InitLearner
    /\ call = None
    /\ decision = None
    /\ stats = InitStats
    /\ \E agent_decision \in TrackedDecisions :
          /\ anomalies = ("a1" :> AnomalyRow("RELIANCE.NS", "volume_spike", 400,
                                              EntryPrice, agent_decision, 0))
          /\ tracking_tasks = ("a1" :> NewTask(USER_ID, "RELIANCE.NS", EntryPrice,
                                               agent_decision, 0))
    /\ user_actions = <<>>
    /\ anomaly_outcomes = <<>>
    /\ pattern_quality = <<>>
    /\ InitCycle
    /\ InitApi

\* the user answers the alert while the outcome is being tracked
UserActs ==
    /\ Len(user_actions) < MaxActions
    /\ \E anomaly_id \in DOMAIN anomalies, action \in UserActions :
          SaveUserAction(anomaly_id, USER_ID, action)

NextOutcome ==
    \/ TaskStep(OutcomePrices)
    \/ UserActs

SpecOutcome == InitOutcome /\ [][NextOutcome]_vars

\* C9: every outcome row's agent_correct is (not was_profitable) when the
\* stored agent_decision is IGNORE, and otherwise it is true exactly when the
\* user reviewed or traded and the signal was profitable, or the user ignored
\* and it was not, all read from the same row.
C9_AgentCorrectDefinition ==
    \A i \in 1..Len(anomaly_outcomes) :
        LET o == anomaly_outcomes[i]
        IN o.agent_correct =
              IF o.agent_decision = "IGNORE" THEN ~o.was_profitable
              ELSE \/ o.user_action \in {"reviewed", "traded"} /\ o.was_profitable
                   \/ o.user_action = "ignored" /\ ~o.was_profitable

C9_Witness ==
    \E i \in 1..Len(anomaly_outcomes) :
        /\ anomaly_outcomes[i].agent_decision = "REVIEW"
        /\ anomaly_outcomes[i].user_action = "ignored"
        /\ anomaly_outcomes[i].was_profitable
        /\ ~anomaly_outcomes[i].agent_correct

\* C10: an outcome row is profitable exactly when some interval has a
\* forward return that is not null and is at least the profit threshold;
\* a null never counts, so a row with every interval null is not profitable.
C10_ProfitableIffSomeReturnReaches ==
    \A i \in 1..Len(anomaly_outcomes) :
        LET o == anomaly_outcomes[i]
        IN o.was_profitable <=>
              \E n \in IntervalNames :
                  /\ o.returns[n] # None
                  /\ o.returns[n][1] >= PROFITABLE_THRESHOLD

C10_Witness ==
    \E i \in 1..Len(anomaly_outcomes) :
        LET o == anomaly_outcomes[i]
        IN /\ o.was_profitable
           /\ o.returns["15m"] = None
           /\ o.returns["1h"] = Some(-100)
           /\ o.returns["4h"] = Some(PROFITABLE_THRESHOLD)
           /\ o.returns["1d"] = None

\* -------------------------------------------------------------------------
\* Two tracked anomalies in flight at once on the same database
\* -------------------------------------------------------------------------

TrackerPrices == {Some(990), Some(1010)}

TrackerSymbols == {"RELIANCE.NS", "TCS.NS"}

InitTracker ==
    /\ InitLearner
    /\ call = None
    /\ decision = None
    /\ stats = InitStats
    /\ \E symbol \in TrackerSymbols :
          /\ anomalies =
                ("a1" :> AnomalyRow("RELIANCE.NS", "volume_spike", 400,
                                    EntryPrice, "REVIEW", 0))
                @@ ("a2" :> AnomalyRow(symbol, "volume_spike", 400,
                                       EntryPrice, "REVIEW", 0))
          /\ tracking_tasks =
                ("a1" :> NewTask(USER_ID, "RELIANCE.NS", EntryPrice, "REVIEW", 0))
                @@ ("a2" :> NewTask(USER_ID, symbol, EntryPrice, "REVIEW", 0))
    /\ user_actions = <<>>
    /\ anomaly_outcomes = <<>>
    /\ pattern_quality = <<>>
    /\ InitCycle
    /\ InitApi

NextTracker ==
    \/ TaskStep(TrackerPrices)
    \/ UserActs

SpecTracker == InitTracker /\ [][NextTracker]_vars

\* the (user, pattern, symbol) triples that have an outcome row
OutcomeTriples ==
    {<<anomaly_outcomes[i].user_id,
       anomalies[anomaly_outcomes[i].anomaly_id].pattern_type,
       anomalies[anomaly_outcomes[i].anomaly_id].symbol>> :
          i \in 1..Len(anomaly_outcomes)}

\* C6: once every tracking task has finished, the pattern_quality row of each
\* triple is the aggregate over all outcome rows of that triple: its
\* sample_size is their number and its rates are the means over them.
C6_ExactAggregation ==
    tracking_tasks = <<>> =>
        \A key \in OutcomeTriples :
            /\ key \in DOMAIN pattern_quality
            /\ Metrics(pattern_quality[key]) =
                  QualityStats(OutcomesOf(anomaly_outcomes, anomalies,
                                          key[1], key[2], key[3]))

\* =========================================================================
\* Detection (detection/detector.py, config.DETECTION_THRESHOLDS) and the
\* threshold overrides (learning/adaptive.py)
\* =========================================================================

\* z-scores in hundredths
DETECTION_THRESHOLDS ==
    [volume_spike |-> [z_score |-> 300, min_volume |-> 1000000,
                       min_data_points |-> 20]]

\* AnomalyDetector.__init__: thresholds or config.DETECTION_THRESHOLDS
DetectorThresholds(thresholds) ==
    IF thresholds = None THEN DETECTION_THRESHOLDS ELSE thresholds[1]

\* a price frame, reduced to what detection and the agent read from it:
\* its length, the z-score of the last volume (None when the volumes have
\* no spread), the last volume and close, and the regime it shows
Frame(data_points, z_score, volume, close, context) ==
    [data_points |-> data_points, z_score |-> z_score, volume |-> volume,
     close |-> close, context |-> context]

\* AnomalyDetector._detect_volume_spike
DetectVolumeSpike(thresholds, symbol, data) ==
    LET cfg == thresholds.volume_spike
    IN IF data.data_points < cfg.min_data_points THEN None
       ELSE IF data.z_score = None \/ data.volume < cfg.min_volume THEN None
       ELSE IF data.z_score[1] >= cfg.z_score
       THEN Some([symbol |-> symbol, type |-> "volume_spike",
                  z_score |-> data.z_score[1], price |-> data.close])
       ELSE None

\* AnomalyDetector.detect: the list of anomalies found in the frame
DetectAnomalies(thresholds, symbol, data) ==
    IF data = None \/ data[1].data_points < 20 THEN <<>>
    ELSE LET vol_anomaly == DetectVolumeSpike(thresholds, symbol, data[1])
         IN IF vol_anomaly # None THEN <<vol_anomaly[1]>> ELSE <<>>

\* RegimeDetector.detect
RegimeDetect(data) ==
    IF data.data_points < 20 THEN DefaultContext ELSE data.context

\* AdaptiveLearner._suggest_adjustment: the new threshold, or None
SuggestAdjustment(pattern_type, row) ==
    LET current == IF pattern_type \in DOMAIN DETECTION_THRESHOLDS
                   THEN DETECTION_THRESHOLDS[pattern_type].z_score ELSE 300
    IN IF row.sample_size < 10 THEN None
       ELSE IF row.accuracy < 30 THEN Some(Min2(current + 50, 500))
       ELSE IF row.accuracy > 60 /\ row.review_rate > 50
       THEN Some(Max2(current - 30, 200))
       ELSE None

\* the triples analyze_and_adapt writes an override for
Adjusted(user_id) ==
    {key \in DOMAIN pattern_quality :
        /\ key[1] = user_id
        /\ pattern_quality[key].sample_size >= 5
        /\ SuggestAdjustment(key[2], pattern_quality[key]) # None}

\* runs of the adaptive job per override row
MaxAdaptations == 2

\* a detection_thresholds row; updated_at is a logical timestamp counting the
\* writes to the row (the column default at INSERT, NOW() at UPDATE)
ThresholdRow(z_score_threshold, updated_at) ==
    [z_score_threshold |-> z_score_threshold, updated_at |-> updated_at]

\* AdaptiveLearner.analyze_and_adapt
AnalyzeAndAdapt(user_id) ==
    /\ \A key \in DOMAIN detection_thresholds :
          detection_thresholds[key].updated_at < MaxAdaptations
    /\ detection_thresholds' =
          [key \in DOMAIN detection_thresholds \cup Adjusted(user_id) |->
              IF key \in Adjusted(user_id)
              THEN ThresholdRow(SuggestAdjustment(key[2], pattern_quality[key])[1],
                                IF key \in DOMAIN detection_thresholds
                                THEN detection_thresholds[key].updated_at + 1
                                ELSE 1)
              ELSE detection_thresholds[key]]
    /\ UNCHANGED <<apiVars, learnerVars, agentVars, dbVars, tracking_tasks,
                   detected, runner, clock>>

\* -------------------------------------------------------------------------
\* Detection on a database that already holds the finished outcomes of one
\* triple
\* -------------------------------------------------------------------------

HistorySize == 10

\* how many of the finished outcomes were profitable
HistoryProfitable == {2, 5, 8}

HistoryId(i) == <<"h", i>>

\* the finished coroutine of history anomaly i
HistoryTask(profit, action) ==
    [NewTask(USER_ID, "RELIANCE.NS", EntryPrice, "REVIEW", 0) EXCEPT
        !.returns = [n \in IntervalNames |->
                        Some(ForwardReturn(IF profit THEN 1010 ELSE 990, EntryPrice))],
        !.user_action = action]

HistoryOutcomes(k, action) ==
    [i \in 1..HistorySize |-> OutcomeRow(HistoryId(i), HistoryTask(i <= k, action))]

DetectFrames ==
    {None} \cup
    {Some(Frame(n, z, v, EntryPrice, Context("ranging", 40))) :
        n \in {10, 30}, z \in {None, Some(280), Some(320), Some(360)},
        v \in {500000, 2000000}}

\* an argument list and the return value of AnomalyDetector.detect
Detected(symbol, data, found) ==
    [symbol |-> symbol, data |-> data, anomalies |-> found]

InitDetect ==
    /\ InitLearner
    /\ call = None
    /\ decision = None
    /\ stats = InitStats
    /\ anomalies = [id \in {HistoryId(i) : i \in 1..HistorySize} |->
                       AnomalyRow("RELIANCE.NS", "volume_spike", 400, EntryPrice,
                                  "REVIEW", 0)]
    /\ \E k \in HistoryProfitable, acted \in BOOLEAN :
          /\ user_actions =
                IF acted
                THEN [i \in 1..HistorySize |->
                         [anomaly_id |-> HistoryId(i), user_id |-> USER_ID,
                          action |-> "reviewed"]]
                ELSE <<>>
          /\ anomaly_outcomes =
                HistoryOutcomes(k, IF acted THEN "reviewed" ELSE "ignored")
    /\ pattern_quality =
          (<<USER_ID, "volume_spike", "RELIANCE.NS">> :>
              QualityRow(QualityStats(anomaly_outcomes), 1))
    /\ tracking_tasks = <<>>
    /\ InitCycle
    /\ InitApi

\* run_once: detector = AnomalyDetector(); anomalies = await detector.detect(...)
DetectCall ==
    /\ \E symbol \in TrackerSymbols, data \in DetectFrames :
          detected' = Some(Detected(symbol, data,
                              DetectAnomalies(DetectorThresholds(None), symbol, data)))
    /\ UNCHANGED <<apiVars, learnerVars, agentVars, dbVars, tracking_tasks,
                   detection_thresholds, runner, clock>>

NextDetect ==
    \/ DetectCall
    \/ AnalyzeAndAdapt(USER_ID)

SpecDetect == InitDetect /\ [][NextDetect]_vars

\* C8: when the detector tests the volume z-score of a frame for a symbol
\* and an override row exists for (user, volume_spike, symbol), it reports
\* the spike exactly when the z-score reaches the override's threshold; the
\* default threshold plays no part.
C8_OverridePrecedence ==
    [][(/\ detected' # detected
        /\ detected'[1].data # None
        /\ detected'[1].data[1].data_points >= 20
        /\ detected'[1].data[1].z_score # None
        /\ detected'[1].data[1].volume >= DETECTION_THRESHOLDS.volume_spike.min_volume
        /\ <<USER_ID, "volume_spike", detected'[1].symbol>>
              \in DOMAIN detection_thresholds)
       => (detected'[1].anomalies # <<>>
             <=> detected'[1].data[1].z_score[1] >=
                    detection_thresholds[<<USER_ID, "volume_spike",
                                           detected'[1].symbol>>]
                       .z_score_threshold)]_vars

\* =========================================================================
\* The detection cycle (run_enhanced.py: run_once) as a process that can be
\* stopped and started again
\* =========================================================================

MaxRuns == 2

MaxRunActions == 1

\* config.SYMBOLS, shortened
SYMBOLS == <<"RELIANCE.NS", "TCS.NS">>

\* what the fetcher can return for a symbol: no data, a quiet frame, a spike
RunFrames ==
    {None,
     Some(Frame(30, Some(250), 2000000, EntryPrice, Context("ranging", 40))),
     Some(Frame(30, Some(400), 2000000, EntryPrice, Context("ranging", 40)))}

\* what the price fetch of a tracking task returns in a cycle (SpecOutcome
\* explores the fetches that fail)
RunPrices == {Some(1010)}

\* Anomaly.create: a fresh id
AnomalyId(symbol, type, run) == <<symbol, type, run>>

\* run_once at the top of its symbol loop; `lost` remembers the anomalies
\* whose tracking coroutine ended with a stopped process
Running(run, lost) ==
    [pc |-> "fetch", run |-> run, i |-> 1, todo |-> <<>>, context |-> None,
     data_points |-> 0, lost |-> lost]

Alive == runner.pc \in {"fetch", "decide", "save", "track", "gather"}

\* the loop over the anomalies of a symbol moves on; after the last anomaly
\* the loop over the symbols moves on; after the last symbol comes the gather
Continue(r) ==
    IF Len(r.todo) > 1 THEN [r EXCEPT !.todo = Tail(r.todo), !.pc = "decide"]
    ELSE [r EXCEPT !.todo = <<>>, !.i = r.i + 1,
                   !.pc = IF r.i = Len(SYMBOLS) THEN "gather" ELSE "fetch"]

\* python run_enhanced.py: the components are built afresh; `delay` says
\* whether a maximum interval has passed since the process last ended
StartRun(delay) ==
    /\ runner.pc \in {"off", "done", "interrupted", "stopped", "failed"}
    /\ runner.run < MaxRuns
    /\ delay \in (IF runner.pc = "off" THEN {0} ELSE {0, 1})
    /\ runner' = Running(runner.run + 1, runner.lost)
    /\ clock' = clock + delay
    /\ context_success' = <<>>
    /\ regime_patterns' = <<>>
    /\ temporal_patterns' = <<>>
    /\ stats' = InitStats
    /\ tracking_tasks' = <<>>
    /\ UNCHANGED <<apiVars, call, decision, dbVars, detection_thresholds, detected>>

\* one symbol: fetch, detect the regime, detect anomalies
CheckSymbol ==
    /\ runner.pc = "fetch"
    /\ \E data \in RunFrames :
          LET symbol == SYMBOLS[runner.i]
              found == DetectAnomalies(DetectorThresholds(None), symbol, data)
          IN IF data = None
             THEN /\ runner' = Continue(runner)
                  /\ UNCHANGED detected
             ELSE /\ detected' = Some(Detected(symbol, data, found))
                  /\ runner' =
                        IF found = <<>> THEN Continue(runner)
                        ELSE [runner EXCEPT !.pc = "decide", !.todo = found,
                                 !.context = Some(RegimeDetect(data[1])),
                                 !.data_points = data[1].data_points]
    /\ UNCHANGED <<apiVars, learnerVars, agentVars, dbVars, tracking_tasks,
                   detection_thresholds, clock>>

\* Database.get_pattern_quality
GetPatternQuality(user_id, pattern_type, symbol) ==
    IF <<user_id, pattern_type, symbol>> \in DOMAIN pattern_quality
    THEN LET row == pattern_quality[<<user_id, pattern_type, symbol>>]
         IN Some(PatternQuality(row.sample_size, row.accuracy, row.trade_rate,
                                row.agent_accuracy))
    ELSE None

\* a cycle whose agent was given a learner that already holds a record of
\* the anomaly's pattern and regime
RunDecideTrainedLearner ==
    /\ runner.pc = "decide"
    /\ CanAcquire
    /\ LET anomaly == Head(runner.todo)
           c == [anomaly |-> [type |-> anomaly.type,
                              z_score |-> Some(anomaly.z_score)],
                 history |-> GetPatternQuality(USER_ID, anomaly.type, anomaly.symbol),
                 context |-> runner.context,
                 data_points |-> runner.data_points,
                 conflicting_signals |-> 0]
           trained == RegimeKey(anomaly.type, ContextOf(runner.context)) :> <<TRUE>>
           d == DecideResult(context_success, trained, c)
       IN /\ call' = c
          /\ decision' = Some(d)
          /\ stats' = StatsAfter(stats, d)
    /\ runner' = [runner EXCEPT !.pc = "save"]
    /\ UNCHANGED <<apiVars, learnerVars, dbVars, tracking_tasks, detection_thresholds,
                   detected, clock>>

\* one anomaly: read the user's history, let the agent decide
RunDecide ==
    /\ runner.pc = "decide"
    /\ CanAcquire
    /\ LET anomaly == Head(runner.todo)
           c == [anomaly |-> [type |-> anomaly.type,
                              z_score |-> Some(anomaly.z_score)],
                 history |-> GetPatternQuality(USER_ID, anomaly.type, anomaly.symbol),
                 context |-> runner.context,
                 data_points |-> runner.data_points,
                 conflicting_signals |-> 0]
           d == DecideResult(context_success, regime_patterns, c)
       IN /\ call' = c
          /\ decision' = Some(d)
          /\ stats' = StatsAfter(stats, d)
    /\ runner' = [runner EXCEPT !.pc = "save"]
    /\ UNCHANGED <<apiVars, learnerVars, dbVars, tracking_tasks, detection_thresholds,
                   detected, clock>>

\* a cycle that goes on to tracking without writing the anomaly
RunSaveSkips ==
    /\ runner.pc = "save"
    /\ runner' = IF decision[1].state # "IGNORE"
                 THEN [runner EXCEPT !.pc = "track"]
                 ELSE Continue(runner)
    /\ UNCHANGED <<apiVars, learnerVars, agentVars, dbVars, tracking_tasks,
                   detection_thresholds, detected, clock>>

\* await db.save_anomaly(...)
RunSave ==
    /\ runner.pc = "save"
    /\ CanAcquire
    /\ LET anomaly == Head(runner.todo)
       IN SaveAnomaly(AnomalyId(anomaly.symbol, anomaly.type, runner.run),
                      anomaly.symbol, anomaly.type, anomaly.z_score,
                      anomaly.price, clock, decision[1].state)
    /\ runner' = IF decision[1].state # "IGNORE"
                 THEN [runner EXCEPT !.pc = "track"]
                 ELSE Continue(runner)
    /\ UNCHANGED <<apiVars, learnerVars, agentVars, user_actions, anomaly_outcomes,
                   pattern_quality, tracking_tasks, detection_thresholds,
                   detected, clock>>

\* await tracker.start_tracking(...)
RunTrack ==
    /\ runner.pc = "track"
    /\ LET anomaly == Head(runner.todo)
       IN StartTracking(AnomalyId(anomaly.symbol, anomaly.type, runner.run),
                        USER_ID, anomaly.symbol, anomaly.price,
                        decision[1].state, decision[1].confidence.composite)
    /\ runner' = Continue(runner)
    /\ UNCHANGED <<apiVars, learnerVars, agentVars, dbVars, detection_thresholds,
                   detected, clock>>

\* await asyncio.gather(*tracker.tracking_tasks.values()), then db.close()
Gather ==
    /\ runner.pc = "gather"
    /\ tracking_tasks = <<>>
    /\ runner' = [runner EXCEPT !.pc = "done"]
    /\ UNCHANGED <<apiVars, learnerVars, agentVars, dbVars, tracking_tasks,
                   detection_thresholds, detected, clock>>

\* the process is stopped (Ctrl+C, kill, crash): its coroutines are gone,
\* the database keeps what was committed
Stop ==
    /\ Alive
    /\ runner' = [runner EXCEPT !.pc = "stopped",
                                 !.lost = @ \cup DOMAIN tracking_tasks]
    /\ tracking_tasks' = <<>>
    /\ UNCHANGED <<apiVars, learnerVars, agentVars, dbVars, detection_thresholds,
                   detected, clock>>

\* KeyboardInterrupt is raised inside the try block of run_once: the handler
\* prints, the finally block closes the pool and run_once returns to
\* run_continuous; the tracking coroutines stay scheduled on the event loop,
\* where their next database call fails on the closed pool
Interrupted ==
    /\ Alive
    /\ runner' = [runner EXCEPT !.pc = "interrupted",
                                 !.lost = @ \cup DOMAIN tracking_tasks]
    /\ UNCHANGED <<apiVars, learnerVars, agentVars, dbVars, tracking_tasks,
                   detection_thresholds, detected, clock>>

\* an exception while a symbol is processed (the detector on a malformed
\* frame, a database call): the loop has no handler for it, the finally block
\* closes the pool, the exception leaves run_once and the process ends
SymbolRaises ==
    /\ runner.pc \in {"fetch", "decide", "save", "track"}
    /\ runner' = [runner EXCEPT !.pc = "failed",
                                 !.lost = @ \cup DOMAIN tracking_tasks]
    /\ tracking_tasks' = <<>>
    /\ UNCHANGED <<apiVars, learnerVars, agentVars, dbVars, detection_thresholds,
                   detected, clock>>

\* nothing has run: an empty database, no process
InitRun ==
    /\ InitLearner
    /\ call = None
    /\ decision = None
    /\ stats = InitStats
    /\ InitStore
    /\ InitCycle
    /\ InitApi

\* the user answers an alert of the cycle
RunUserActs ==
    /\ Len(user_actions) < MaxRunActions
    /\ \E anomaly_id \in DOMAIN anomalies, action \in UserActions :
          SaveUserAction(anomaly_id, USER_ID, action)

NextRun ==
    \/ \E delay \in {0, 1} : StartRun(delay)
    \/ CheckSymbol
    \/ RunDecide
    \/ RunSave
    \/ RunTrack
    \/ Gather
    \/ Stop
    \/ Interrupted
    \/ SymbolRaises
    \/ TaskStep(RunPrices)
    \/ RunUserActs

SpecRun == InitRun /\ [][NextRun]_vars

\* the outcome rows of an anomaly
RowsOf(anomaly_id) ==
    {i \in 1..Len(anomaly_outcomes) : anomaly_outcomes[i].anomaly_id = anomaly_id}

\* the actions the user recorded for an anomaly
RecordedActions(anomaly_id) ==
    {user_actions[i].action :
        i \in {j \in 1..Len(user_actions) : user_actions[j].anomaly_id = anomaly_id}}

\* C1: when a detection cycle has run to its end, every anomaly whose
\* decision is not IGNORE has exactly one outcome row, and the row's
\* user_action is an action the user recorded for it or 'ignored'.
C1_OutcomeCompleteness ==
    runner.pc = "done" =>
        \A id \in DOMAIN anomalies :
            anomalies[id].agent_decision # "IGNORE" =>
                /\ Cardinality(RowsOf(id)) = 1
                /\ \A i \in RowsOf(id) :
                      anomaly_outcomes[i].user_action
                          \in RecordedActions(id) \cup {"ignored"}

\* C5: once the task that wrote an outcome row of the running cycle has
\* finished, the learner holds a record of that outcome's pattern and
\* regime context.
C5_LearnerIngestsOutcome ==
    \A i \in 1..Len(anomaly_outcomes) :
        LET id == anomaly_outcomes[i].anomaly_id
        IN (Alive /\ id[3] = runner.run /\ id \notin DOMAIN tracking_tasks)
              => RecordCount >= 1

\* C7: when a process started after a stop has run its cycle to the end,
\* every anomaly whose tracking was in flight at the stop, with a decision
\* other than IGNORE and detected more than a maximum interval ago, has its
\* outcome row.
C7_DurableAcrossRestart ==
    runner.pc = "done" =>
        \A id \in runner.lost :
            (anomalies[id].agent_decision # "IGNORE"
             /\ anomalies[id].detected_at < clock)
                => RowsOf(id) # {}

\* C11: when a tracking task reads the user's action it gets the action of
\* the newest user_actions row for its (anomaly_id, user_id), or 'ignored'
\* when there is none, and that value is the user_action of the outcome row
\* the task then inserts.
C11_LatestActionWins ==
    [][\A id \in DOMAIN tracking_tasks :
          LET t == tracking_tasks[id]
              mine == {i \in 1..Len(user_actions) :
                          /\ user_actions[i].anomaly_id = id
                          /\ user_actions[i].user_id = t.user_id}
          IN /\ (/\ t.pc = "get_user_action"
                 /\ id \in DOMAIN tracking_tasks'
                 /\ tracking_tasks'[id].pc = "insert")
                => IF mine = {}
                   THEN tracking_tasks'[id].user_action = "ignored"
                   ELSE \E i \in mine :
                           /\ \A j \in mine : j <= i
                           /\ tracking_tasks'[id].user_action = user_actions[i].action
             /\ (/\ t.pc = "insert"
                 /\ id \in DOMAIN tracking_tasks'
                 /\ tracking_tasks'[id].pc = "update_quality")
                => /\ Len(anomaly_outcomes') = Len(anomaly_outcomes) + 1
                   /\ anomaly_outcomes'[Len(anomaly_outcomes')].anomaly_id = id
                   /\ anomaly_outcomes'[Len(anomaly_outcomes')].user_action
                         = t.user_action]_vars

C11_Witness ==
    /\ Len(user_actions) = 2
    /\ user_actions[1].action = "reviewed"
    /\ user_actions[2].action = "traded"
    /\ \E i \in 1..Len(anomaly_outcomes) :
          anomaly_outcomes[i].user_action = "traded"

\* C12: a task that has just taken the sample of an interval has slept, since
\* tracking started, the seconds configured for that interval: 900 for 15m,
\* 3600 for 1h, 14400 for 4h, 86400 for 1d.
C12_SampleAtConfiguredOffset ==
    \A id \in DOMAIN tracking_tasks :
        LET t == tracking_tasks[id]
        IN (t.idx > 1 /\ t.pc \in {"sampling", "get_user_action"})
              => t.elapsed = OUTCOME_INTERVALS[t.idx - 1][2]

\* C13: a price fetch that fails or comes back empty leaves the return of
\* its interval null and the task goes on to the next interval (or, after
\* the last one, to the write of the outcome); the outcome row carries the
\* nulls; and a task ends only after its outcome row is written.
C13_FetchFailureNeverAborts ==
    [][\A id \in DOMAIN tracking_tasks :
          LET t == tracking_tasks[id]
          IN /\ (/\ t.pc = "sampling"
                 /\ id \in DOMAIN tracking_tasks'
                 /\ tracking_tasks'[id] # t
                 /\ tracking_tasks'[id].current_price = None)
                => /\ tracking_tasks'[id].returns[OUTCOME_INTERVALS[t.idx][1]] = None
                   /\ tracking_tasks'[id].idx = t.idx + 1
                   /\ tracking_tasks'[id].pc =
                         IF t.idx < Len(OUTCOME_INTERVALS)
                         THEN "sampling" ELSE "get_user_action"
                   /\ \A n \in IntervalNames \ {OUTCOME_INTERVALS[t.idx][1]} :
                         tracking_tasks'[id].returns[n] = t.returns[n]
             /\ (t.pc = "insert" /\ anomaly_outcomes' # anomaly_outcomes)
                => anomaly_outcomes'[Len(anomaly_outcomes')].returns = t.returns
             /\ id \notin DOMAIN tracking_tasks'
                => \E i \in 1..Len(anomaly_outcomes) :
                      anomaly_outcomes[i].anomaly_id = id]_vars

C13_Witness ==
    \E i \in 1..Len(anomaly_outcomes) :
        /\ anomaly_outcomes[i].returns["15m"] = None
        /\ anomaly_outcomes[i].returns["1h"] # None
        /\ anomaly_outcomes[i].returns["4h"] = None
        /\ anomaly_outcomes[i].returns["1d"] # None

\* C14: when a detection cycle has ended, by itself or with an exception, no
\* symbol of the watchlist was left unprocessed: an exception while one
\* symbol is processed does not keep the cycle from the symbols after it.
C14_SymbolFailureIsolated ==
    runner.pc \in {"done", "failed"} => runner.i >= Len(SYMBOLS)

\* the arguments of decide() in scenario S1: a volume spike of z = 6.0 on a
\* 60-bar window, history (accuracy 0.72, trade_rate 0.55, agent_accuracy
\* 0.70, sample_size 30), regime ranging, volatility percentile 40
ScenarioS1 ==
    [anomaly |-> [type |-> "volume_spike", z_score |-> Some(600)],
     history |-> Some(PatternQuality(30, 72, 55, 70)),
     context |-> Some(Context("ranging", 40)),
     data_points |-> 60, conflicting_signals |-> 0]

\* C15: with the learner as the detection cycle builds it (no outcome
\* recorded), decide() on scenario S1 returns EXECUTE with composite >= 0.75
\* and rejected = false.
C15_ScenarioS1Executes ==
    (decision # None /\ call = ScenarioS1 /\ RecordCount = 0) =>
        /\ decision[1].state = "EXECUTE"
        /\ CompositeAtLeast(decision[1].confidence, 75)
        /\ ~decision[1].rejected

\* C16: with a learner that holds no data at all, the regime component of
\* the confidence decide() computed is 0.5.
C16_NoDataRegimeIsHalf ==
    (decision # None /\ RecordCount = 0) => decision[1].confidence.regime = 5000

\* -------------------------------------------------------------------------
\* Quality idempotence
\* -------------------------------------------------------------------------

\* the triple a tracking task recomputes
TripleOf(id) ==
    <<tracking_tasks[id].user_id, tracking_tasks[id].pattern_type,
      anomalies[id].symbol>>

\* task id is about to write, for its triple, the aggregate of the outcome
\* rows the stored row was already computed from
Recomputes(id) ==
    /\ id \in DOMAIN tracking_tasks
    /\ tracking_tasks[id].pc = "upsert"
    /\ tracking_tasks[id].stats.sample_size > 0
    /\ TripleOf(id) \in DOMAIN pattern_quality
    /\ tracking_tasks[id].stats =
          QualityStats(OutcomesOf(anomaly_outcomes, anomalies, TripleOf(id)[1],
                                  TripleOf(id)[2], TripleOf(id)[3]))
    /\ Metrics(pattern_quality[TripleOf(id)]) = tracking_tasks[id].stats

\* task id performs its write in this step
Writes(id) ==
    /\ id \in DOMAIN tracking_tasks
    /\ id \notin DOMAIN tracking_tasks'
    /\ anomaly_outcomes' = anomaly_outcomes

\* C17 as stated: a recomputation over an unchanged outcome set leaves every
\* column of the stored pattern_quality row the same.
C17_ByteIdenticalRow ==
    [][\A id \in DOMAIN tracking_tasks :
          (Recomputes(id) /\ Writes(id)) =>
              pattern_quality'[TripleOf(id)] = pattern_quality[TripleOf(id)]]_vars

\* C17 amended: a recomputation over an unchanged outcome set leaves the six
\* metric columns of the stored row the same; updated_at is refreshed.
C17_MetricsIdentical ==
    [][\A id \in DOMAIN tracking_tasks :
          (Recomputes(id) /\ Writes(id)) =>
              /\ Metrics(pattern_quality'[TripleOf(id)]) =
                    Metrics(pattern_quality[TripleOf(id)])
              /\ pattern_quality'[TripleOf(id)].updated_at >
                    pattern_quality[TripleOf(id)].updated_at]_vars

\* a second task of the triple holds the aggregate the stored row already has
C17_Witness ==
    \E id \in DOMAIN tracking_tasks :
        /\ Recomputes(id)
        /\ tracking_tasks[id].stats.sample_size = 2

\* -------------------------------------------------------------------------
\* The adaptive job
\* -------------------------------------------------------------------------

\* the threshold in force for a triple: its override row, else the default
InForce(key) ==
    IF key \in DOMAIN detection_thresholds
    THEN detection_thresholds[key].z_score_threshold
    ELSE IF key[2] \in DOMAIN DETECTION_THRESHOLDS
    THEN DETECTION_THRESHOLDS[key[2]].z_score ELSE 300

\* C18: a run of the adaptive job moves the override of a triple with
\* sample_size >= 10 and accuracy < 0.30 to min(t + 0.5, 5.0), and with
\* sample_size >= 10, accuracy > 0.60 and review_rate > 0.50 to
\* max(t - 0.3, 2.0), where t is the threshold in force before the run (the
\* existing override, else the default); any other triple keeps its row.
C18_AdjustsThresholdInForce ==
    [][detection_thresholds' # detection_thresholds =>
          \A key \in DOMAIN pattern_quality :
              key[1] = USER_ID =>
                  LET row == pattern_quality[key]
                  IN IF row.sample_size >= 10 /\ row.accuracy < 30
                     THEN /\ key \in DOMAIN detection_thresholds'
                          /\ detection_thresholds'[key].z_score_threshold =
                                Min2(InForce(key) + 50, 500)
                     ELSE IF /\ row.sample_size >= 10
                             /\ row.accuracy > 60
                             /\ row.review_rate > 50
                     THEN /\ key \in DOMAIN detection_thresholds'
                          /\ detection_thresholds'[key].z_score_threshold =
                                Max2(InForce(key) - 30, 200)
                     ELSE IF key \in DOMAIN detection_thresholds
                     THEN /\ key \in DOMAIN detection_thresholds'
                          /\ detection_thresholds'[key] = detection_thresholds[key]
                     ELSE key \notin DOMAIN detection_thresholds']_vars

\* -------------------------------------------------------------------------
\* Ordering within one anomaly of a cycle
\* -------------------------------------------------------------------------

\* C19: a tracking task is created only for an anomaly whose row was already
\* saved before the step that creates the task, so no task ever exists for an
\* anomaly id that is not in the anomalies table.
C19_SaveBeforeTracking ==
    /\ [](DOMAIN tracking_tasks \subseteq DOMAIN anomalies)
    /\ [][\A id \in DOMAIN tracking_tasks' :
             id \notin DOMAIN tracking_tasks => id \in DOMAIN anomalies]_vars

\* the cycle has enqueued the tracking of an anomaly it saved
C19_Witness ==
    /\ runner.pc \in {"fetch", "gather"}
    /\ \E id \in DOMAIN tracking_tasks :
          /\ id \in DOMAIN anomalies
          /\ tracking_tasks[id].idx = 1

\* -------------------------------------------------------------------------
\* Visibility of the outcome row
\* -------------------------------------------------------------------------

\* C20: an outcome row is in anomaly_outcomes only when its task has passed
\* every interval and read the user action, with was_profitable and
\* agent_correct computed from the row's own returns; and a row, once
\* written, is never changed or removed.
C20_OutcomeRowCompleteAndFinal ==
    /\ [](\A i \in 1..Len(anomaly_outcomes) :
             LET o == anomaly_outcomes[i]
             IN /\ o.anomaly_id \in DOMAIN tracking_tasks =>
                      /\ tracking_tasks[o.anomaly_id].idx = Len(OUTCOME_INTERVALS) + 1
                      /\ tracking_tasks[o.anomaly_id].pc \in {"update_quality", "upsert"}
                      /\ tracking_tasks[o.anomaly_id].returns = o.returns
                /\ o.was_profitable = WasProfitable(o.returns)
                /\ o.agent_correct =
                      EvaluateAgent(o.agent_decision, o.user_action, o.was_profitable))
    /\ [][/\ Len(anomaly_outcomes') >= Len(anomaly_outcomes)
          /\ \A i \in 1..Len(anomaly_outcomes) :
                anomaly_outcomes'[i] = anomaly_outcomes[i]]_vars

\* a row is visible while its task recomputes the quality, and it carries a
\* sampled and a missing interval
C20_Witness ==
    \E i \in 1..Len(anomaly_outcomes) :
        /\ anomaly_outcomes[i].anomaly_id \in DOMAIN tracking_tasks
        /\ tracking_tasks[anomaly_outcomes[i].anomaly_id].pc = "update_quality"
        /\ anomaly_outcomes[i].returns["1d"] = None
        /\ anomaly_outcomes[i].returns["15m"] # None

\* -------------------------------------------------------------------------
\* Cancellation of a tracking task
\* -------------------------------------------------------------------------

\* C21: a tracking task that ends after it has collected at least one
\* interval sample leaves an outcome row for its anomaly: when it is
\* cancelled it still writes the row from the samples it has.
C21_CancelledTaskPersists ==
    [][\A id \in DOMAIN tracking_tasks :
          (/\ tracking_tasks[id].returns # NoReturns
           /\ id \notin DOMAIN tracking_tasks')
          => \E i \in 1..Len(anomaly_outcomes') :
                anomaly_outcomes'[i].anomaly_id = id]_vars

\* =========================================================================
\* Severity of an emitted anomaly (detector.py, real_detector.py); z-scores
\* in thousandths here, so that round(z_score, 2) is visible
\* =========================================================================

\* round(z_score, 2): thousandths to hundredths; the inputs below have no
\* third decimal of 5, whose rounding depends on the nearest float
Round2(z) == IF z % 10 < 5 THEN z \div 10 ELSE z \div 10 + 1

\* config.DETECTION_THRESHOLDS[...]["z_score"] of the three bar-window checks
ZScoreThreshold(type) ==
    IF type = "volume_spike" THEN 3000 ELSE 2500

\* AnomalyDetector._z_to_severity
ZToSeverity(z_score) ==
    IF z_score >= 5000 THEN "critical"
    ELSE IF z_score >= 4000 THEN "high"
    ELSE IF z_score >= 3000 THEN "medium"
    ELSE "low"

\* AnomalyDetector._detect_*: the anomaly built when the z-score reaches the
\* threshold; z_score is stored in hundredths
EmitAnomaly(symbol, type, z_score) ==
    IF z_score >= ZScoreThreshold(type)
    THEN <<[detector |-> "AnomalyDetector", symbol |-> symbol, type |-> type,
            severity |-> ZToSeverity(z_score), z_score |-> Round2(z_score),
            scale |-> 100]>>
    ELSE <<>>

Abs(x) == IF x < 0 THEN 0 - x ELSE x

\* RealAnomalyDetector.detect_anomaly: the three threshold checks in turn,
\* then the two breakout checks, then the severity of max_zscore
RealDetectAnomaly(symbol, zscores) ==
    LET threshold == 2000
        vol == Abs(zscores.volume) >= threshold
        m1 == IF vol THEN Abs(zscores.volume) ELSE 0
        p1 == IF vol THEN <<"volume_spike">> ELSE <<>>
        price == Abs(zscores.price) >= threshold
        m2 == IF price /\ Abs(zscores.price) > m1 THEN Abs(zscores.price) ELSE m1
        p2 == IF price /\ Abs(zscores.price) > m1 THEN <<"price_momentum">> ELSE p1
        range == Abs(zscores.range) >= threshold
        m3 == IF range /\ Abs(zscores.range) > m2 THEN Abs(zscores.range) ELSE m2
        p3 == IF range /\ Abs(zscores.range) > m2 THEN <<"volatility_surge">> ELSE p2
        high == zscores.breakout_high /\ zscores.volume > 1500
        m4 == IF high THEN Max2(m3, zscores.volume) ELSE m3
        p4 == IF high THEN <<"breakout_high">> ELSE p3
        low == zscores.breakout_low /\ zscores.volume > 1500
        max_zscore == IF low THEN Max2(m4, zscores.volume) ELSE m4
        pattern_type == IF low THEN <<"breakout_low">> ELSE p4
        severity == IF max_zscore >= 4000 THEN "critical"
                    ELSE IF max_zscore >= 3000 THEN "high"
                    ELSE IF max_zscore >= 2500 THEN "medium"
                    ELSE "low"
    IN IF ~(vol \/ price \/ range \/ high \/ low) THEN <<>>
       ELSE <<[detector |-> "RealAnomalyDetector", symbol |-> symbol,
               type |-> pattern_type[1], severity |-> severity,
               z_score |-> max_zscore, scale |-> 1000]>>

\* z-scores handed to the bar-window checks
SeverityZScores ==
    {2400, 2500, 2999, 3000, 3994, 3996, 4000, 4500, 4996, 5000, 6000}

\* daily z-scores of the API detector
RealZScores ==
    [volume : {-2600, 0, 1600, 2600, 3200, 4200},
     price : {-3100, 0, 2200},
     range : {0, 2700, 5200},
     breakout_high : BOOLEAN, breakout_low : BOOLEAN]

InitSeverity ==
    /\ InitLearner
    /\ call = None
    /\ decision = None
    /\ stats = InitStats
    /\ InitStore
    /\ InitCycle
    /\ InitApi

\* one of AnomalyDetector's checks runs on a frame with the given z-score
DetectorEmits ==
    /\ \E symbol \in TrackerSymbols, z_score \in SeverityZScores,
          type \in {"volume_spike", "price_momentum", "volatility_surge"} :
          detected' = Some(Detected(symbol, Some(z_score),
                                    EmitAnomaly(symbol, type, z_score)))
    /\ UNCHANGED <<apiVars, learnerVars, agentVars, dbVars, tracking_tasks,
                   detection_thresholds, runner, clock>>

\* RealAnomalyDetector.detect_anomaly runs on the z-scores of a day
RealDetects ==
    /\ \E symbol \in TrackerSymbols, zscores \in RealZScores :
          detected' = Some(Detected(symbol, Some(zscores),
                                    RealDetectAnomaly(symbol, zscores)))
    /\ UNCHANGED <<apiVars, learnerVars, agentVars, dbVars, tracking_tasks,
                   detection_thresholds, runner, clock>>

NextSeverity ==
    \/ DetectorEmits
    \/ RealDetects

SpecSeverity == InitSeverity /\ [][NextSeverity]_vars

\* the severity the mapping gives a z-score expressed in units of 1/scale
MappedSeverity(z, scale) ==
    IF z < 3 * scale THEN "low"
    ELSE IF z < 4 * scale THEN "medium"
    ELSE IF z < 5 * scale THEN "high"
    ELSE "critical"

\* C22: every anomaly a detector emits has the severity its z_score maps to:
\* low below 3, medium from 3, high from 4, critical from 5.
C22_SeverityFromZScore ==
    detected # None =>
        \A i \in 1..Len(detected[1].anomalies) :
            LET a == detected[1].anomalies[i]
            IN a.severity = MappedSeverity(a.z_score, a.scale)

\* -------------------------------------------------------------------------
\* Bounds of the composite confidence
\* -------------------------------------------------------------------------

\* C23: the composite of every calculated confidence lies between 0 and 1
\* and does not exceed the weighted sum 0.25 statistical + 0.30 behavioral
\* + 0.25 regime + 0.20 data_quality of its components.
C23_CompositeBounds ==
    decision # None =>
        LET c == decision[1].confidence
        IN /\ c.composite >= 0
           /\ c.composite <= 200000000
           /\ c.composite <= 200 * (25 * c.statistical + 30 * c.behavioral
                                    + 25 * c.regime + 20 * c.data_quality)

\* a confidence with an uncertainty penalty, calculated by a learner that
\* holds records
C23_Witness ==
    /\ decision # None
    /\ RecordCount > 0
    /\ decision[1].confidence.uncertainty > 0
    /\ decision[1].confidence.composite > 0

\* =========================================================================
\* Many tasks finalizing against the bounded pool
\* =========================================================================

\* tracking tasks of one cycle that reach _update_pattern_quality together
MaxFinalizing == 10

FinalizingId(i) == <<"RELIANCE.NS", "volume_spike", i>>

\* a coroutine that has sampled every interval and inserted its outcome row
FinalizingTask ==
    [NewTask(USER_ID, "RELIANCE.NS", EntryPrice, "REVIEW", 0) EXCEPT
        !.returns = [n \in IntervalNames |-> Some(ForwardReturn(1010, EntryPrice))],
        !.idx = Len(OUTCOME_INTERVALS) + 1,
        !.pc = "update_quality"]

InitPool ==
    /\ InitLearner
    /\ call = None
    /\ decision = None
    /\ stats = InitStats
    /\ anomalies =
          [id \in {FinalizingId(i) : i \in 1..MaxFinalizing} |->
              AnomalyRow("RELIANCE.NS", "volume_spike", 400, EntryPrice, "REVIEW", 0)]
    /\ user_actions = <<>>
    /\ anomaly_outcomes =
          [i \in 1..MaxFinalizing |-> OutcomeRow(FinalizingId(i), FinalizingTask)]
    /\ pattern_quality = <<>>
    /\ tracking_tasks =
          [id \in {FinalizingId(i) : i \in 1..MaxFinalizing} |-> FinalizingTask]
    /\ InitCycle
    /\ InitApi

NextPool ==
    \E id \in DOMAIN tracking_tasks :
        \/ ReadQuality(id)
        \/ WriteQuality(id)

SpecPool == InitPool /\ [][NextPool]_vars

\* C24: the pool is never exhausted by tasks that each hold one connection
\* inside _update_pattern_quality and wait for a second one.
C24_NoPoolDeadlock ==
    ~(/\ ConnectionsHeld >= POOL_MAX_SIZE
      /\ \A id \in DOMAIN tracking_tasks :
            tracking_tasks[id].pc = "upsert" =>
                tracking_tasks[id].stats.sample_size > 0)

\* -------------------------------------------------------------------------
\* Decisions of a detection cycle
\* -------------------------------------------------------------------------

\* C25: in a detection cycle the learner holds no record when the agent
\* decides, and every decision is a rejection with state IGNORE or an
\* escalation with state REVIEW: MONITOR, EXECUTE and a plain IGNORE or
\* REVIEW never come out of a cycle.
C25_CycleOnlyRejectsOrEscalates ==
    /\ RecordCount = 0
    /\ (runner.pc # "off" /\ decision # None) =>
          \/ decision[1].rejected /\ decision[1].state = "IGNORE"
          \/ decision[1].escalated /\ decision[1].state = "REVIEW"

\* the cycle has decided on a 4-sigma spike and is about to save it
C25_Witness ==
    /\ runner.pc = "save"
    /\ decision # None
    /\ decision[1].escalated
    /\ decision[1].escalation_reason = "first_occurrence"
    /\ CompositeAtLeast(decision[1].confidence, 55)

\* -------------------------------------------------------------------------
\* First-occurrence escalation
\* -------------------------------------------------------------------------

\* record_outcome has been called for the pattern and regime of the call
HasRecord ==
    \E k \in DOMAIN context_success :
        /\ k[1] = call.anomaly.type
        /\ k[2] = ContextOf(call.context).regime

\* C26: a decide call made while the learner has no record of the anomaly's
\* (pattern_type, regime) and that is neither rejected nor escalated for high
\* uncertainty returns REVIEW, escalated, first_occurrence; a decide call made
\* once the learner has a record of the pair never returns first_occurrence.
C26_FirstOccurrenceOnlyWithoutRecord ==
    [][stats'.total_decisions = stats.total_decisions + 1 =>
          LET d == decision'[1]
          IN /\ (/\ ~HasRecord
                 /\ ~d.rejected
                 /\ d.escalation_reason # "high_uncertainty")
                => /\ d.state = "REVIEW"
                   /\ d.escalated
                   /\ d.escalation_reason = "first_occurrence"
             /\ HasRecord => d.escalation_reason # "first_occurrence"]_vars

\* a call that was escalated as a first occurrence is decided on its merits
\* after the learner has ingested an outcome of the pair
C26_Witness ==
    /\ HasRecord
    /\ stats.escalated = 1
    /\ stats.total_decisions = 2
    /\ decision # None
    /\ ~decision[1].escalated
    /\ ~decision[1].rejected

\* =========================================================================
\* The watchlist of the API (api/routes/watchlist.py, api/core/database.py)
\* =========================================================================

\* POST /watchlist requests made in a run
MaxRequests == 2

\* symbols in upper case, 1 to 15 letters: they pass the validation of the
\* route unchanged
WatchSymbols == <<"RELIANCE", "TCS", "INFY", "SBIN", "ITC", "WIPRO", "LT">>

\* settings.tier_limits.get(tier, {}).get("symbols", 5)
TierLimit(tier) ==
    IF tier = "free" THEN 5
    ELSE IF tier = "pro" THEN 25
    ELSE IF tier = "serious" THEN 100
    ELSE IF tier = "unlimited" THEN 999999
    ELSE 5

\* SELECT COUNT(*) FROM user_watchlist WHERE user_id = $1
GetWatchlistCount(user_id) ==
    IF user_id \in DOMAIN user_watchlist
    THEN Cardinality(user_watchlist[user_id]) ELSE 0

\* the handler stops with an HTTP status
Respond(id, code) ==
    add_requests' = [add_requests EXCEPT ![id].pc = "done", ![id].status = code]

\* a client posts a symbol; the handler starts
AddRequest(user_id, symbol) ==
    /\ Cardinality(DOMAIN add_requests) < MaxRequests
    /\ add_requests' =
          add_requests @@
          ((Cardinality(DOMAIN add_requests) + 1) :>
              [user_id |-> user_id, symbol |-> symbol, pc |-> "get_user",
               status |-> 0])
    /\ UNCHANGED <<learnerVars, agentVars, dbVars, tracking_tasks, cycleVars,
                   users, user_watchlist>>

\* route: user = await db.get_user(user_id)
RouteGetUser(id) ==
    /\ id \in DOMAIN add_requests
    /\ add_requests[id].pc = "get_user"
    /\ IF add_requests[id].user_id \in DOMAIN users
       THEN add_requests' = [add_requests EXCEPT ![id].pc = "count"]
       ELSE Respond(id, 404)
    /\ UNCHANGED <<learnerVars, agentVars, dbVars, tracking_tasks, cycleVars,
                   users, user_watchlist>>

\* route: current_count = await db.get_watchlist_count(user_id), limit check
RouteCount(id) ==
    /\ id \in DOMAIN add_requests
    /\ add_requests[id].pc = "count"
    /\ LET r == add_requests[id]
       IN IF GetWatchlistCount(r.user_id) >= TierLimit(users[r.user_id].tier)
          THEN Respond(id, 403)
          ELSE add_requests' = [add_requests EXCEPT ![id].pc = "db_tier"]
    /\ UNCHANGED <<learnerVars, agentVars, dbVars, tracking_tasks, cycleVars,
                   users, user_watchlist>>

\* APIDatabase.add_to_watchlist: SELECT tier FROM users
DbTier(id) ==
    /\ id \in DOMAIN add_requests
    /\ add_requests[id].pc = "db_tier"
    /\ IF add_requests[id].user_id \in DOMAIN users
       THEN add_requests' = [add_requests EXCEPT ![id].pc = "db_count"]
       ELSE Respond(id, 400)
    /\ UNCHANGED <<learnerVars, agentVars, dbVars, tracking_tasks, cycleVars,
                   users, user_watchlist>>

\* APIDatabase.add_to_watchlist: SELECT COUNT(*), limit check
DbCount(id) ==
    /\ id \in DOMAIN add_requests
    /\ add_requests[id].pc = "db_count"
    /\ LET r == add_requests[id]
       IN IF GetWatchlistCount(r.user_id) >= TierLimit(users[r.user_id].tier)
          THEN Respond(id, 400)
          ELSE add_requests' = [add_requests EXCEPT ![id].pc = "insert"]
    /\ UNCHANGED <<learnerVars, agentVars, dbVars, tracking_tasks, cycleVars,
                   users, user_watchlist>>

\* APIDatabase.add_to_watchlist: INSERT ... ON CONFLICT DO NOTHING, return True
DbInsert(id) ==
    /\ id \in DOMAIN add_requests
    /\ add_requests[id].pc = "insert"
    /\ LET r == add_requests[id]
       IN user_watchlist' =
             IF r.user_id \in DOMAIN user_watchlist
             THEN [user_watchlist EXCEPT ![r.user_id] = @ \cup {r.symbol}]
             ELSE user_watchlist @@ (r.user_id :> {r.symbol})
    /\ Respond(id, 201)
    /\ UNCHANGED <<learnerVars, agentVars, dbVars, tracking_tasks, cycleVars, users>>

\* a free-tier user whose watchlist already holds some symbols
InitWatchlist ==
    /\ InitLearner
    /\ call = None
    /\ decision = None
    /\ stats = InitStats
    /\ InitStore
    /\ detection_thresholds = <<>>
    /\ detected = None
    /\ runner = NotRunning
    /\ clock = 0
    /\ users = ("u1" :> [tier |-> "free"])
    /\ \E k \in 0..4 : user_watchlist = ("u1" :> {WatchSymbols[i] : i \in 1..k})
    /\ add_requests = <<>>

NextWatchlist ==
    \/ \E symbol \in {WatchSymbols[i] : i \in 4..Len(WatchSymbols)} :
          AddRequest("u1", symbol)
    \/ \E id \in DOMAIN add_requests :
          \/ RouteGetUser(id)
          \/ RouteCount(id)
          \/ DbTier(id)
          \/ DbCount(id)
          \/ DbInsert(id)

SpecWatchlist == InitWatchlist /\ [][NextWatchlist]_vars

\* C27: the watchlist of a user never holds more symbols than the limit of
\* the user's tier.
C27_WatchlistWithinTierLimit ==
    \A user_id \in DOMAIN user_watchlist :
        Cardinality(user_watchlist[user_id]) <= TierLimit(users[user_id].tier)

\* -------------------------------------------------------------------------
\* Continuous mode
\* -------------------------------------------------------------------------

\* C28: when run_continuous starts the next cycle after run_once has
\* returned, no tracking task of the cycle before is still running.
C28_NextCycleAfterTracking ==
    [][(/\ runner.pc \in {"done", "interrupted"}
        /\ runner'.run = runner.run + 1)
       => tracking_tasks = <<>>]_vars

\* -------------------------------------------------------------------------
\* Shape of an escalated decision
\* -------------------------------------------------------------------------

\* C29: a decision with escalated = true has state REVIEW, carries an
\* escalation reason and is not rejected.
C29_EscalatedIsReviewNotRejected ==
    (decision # None /\ decision[1].escalated) =>
        /\ decision[1].state = "REVIEW"
        /\ decision[1].escalation_reason # NoReason
        /\ ~decision[1].rejected

\* an escalation for high uncertainty by a learner that knows the regime
C29_Witness ==
    /\ decision # None
    /\ decision[1].escalated
    /\ decision[1].escalation_reason = "high_uncertainty"
    /\ RecordCount > 0

\* -------------------------------------------------------------------------
\* The agent's counters
\* -------------------------------------------------------------------------

\* C30: total_decisions is the sum of by_state over the four states, and
\* the rejected and escalated counters do not exceed by_state[IGNORE] and
\* by_state[REVIEW].
C30_StatsConsistent ==
    /\ stats.total_decisions =
          stats.by_state["IGNORE"] + stats.by_state["MONITOR"]
          + stats.by_state["REVIEW"] + stats.by_state["EXECUTE"]
    /\ stats.rejected <= stats.by_state["IGNORE"]
    /\ stats.escalated <= stats.by_state["REVIEW"]

\* two decisions on one agent: an escalation, then a plain REVIEW
C30_Witness ==
    /\ stats.total_decisions = 2
    /\ stats.escalated = 1
    /\ stats.by_state["REVIEW"] = 2

=============================================================================
